---- MODULE Spec2Model ----
(***************************************************************************)
(* Model of the physical block allocator of lwext4 (src/lwext4/            *)
(* ext4_balloc.c): ext4_balloc_free_block (free_one),                      *)
(* ext4_balloc_free_blocks (free_range), ext4_balloc_alloc_block (alloc)   *)
(* and ext4_balloc_try_alloc_block (try_one).                              *)
(*                                                                         *)
(* A bitmap block is represented by the set of its CLEAR bit indices       *)
(* (bit i clear <=> i \in bitmap[g]); every other index of 0 .. 8*B-1 is a *)
(* set bit.  Every call of the block-device and block-group layer          *)
(* (get_block_group_ref, block_get, block_set, put_block_group_ref) made   *)
(* by one allocator call is numbered 1, 2, ... in execution order; the     *)
(* input f of an operation is the number of the call that fails (0: none). *)
(*                                                                         *)
(* Specifications: Spec (the four operations on valid block addresses,     *)
(* with I/O failures), SpecReserved (callers that pass address 0),         *)
(* SpecScan (the search order of alloc over drawn bitmaps), SpecGeom       *)
(* (bgid_of and first_block_of in the integer widths of the source).       *)
(***************************************************************************)
EXTENDS Integers, Sequences, FiniteSets, TLC

VARIABLES sb, bg, bitmap, inode, last, hist

vars == <<sb, bg, bitmap, inode, last, hist>>

\* ------------------------------------------------------------------ bounds

\* Allocator calls per behaviour.
MaxCalls == 4

\* alloc calls per behaviour of the search-order specification.
MaxScanCalls == 2

\* Calls that return an I/O error per behaviour: the caller gives the
\* filesystem up after that many.
MaxFaults == 1

\* ------------------------------------------------------- program constants

EXT4_INODE_BLOCK_SIZE == 512

EXT4_MAX_BLOCK_GROUP_DESCRIPTOR_SIZE == 64

EOK == "EOK"

EIO == "EIO"

ENOSPC == "ENOSPC"

\* --------------------------------------------------------------- geometry

\* Superblock geometries (block_size, blocks_per_group, first_data_block,
\* blocks_count, the flex_bg and metadata_csum features, desc_size):
\*   1: 1 KiB blocks, full groups of 8*B blocks, a short last group;
\*   2: 2 KiB blocks, blocks_per_group < 8*B (bitmap padding in every
\*      group), flex_bg, a short last group;
\*   3: 1 KiB blocks, two full groups of 8*B blocks, flex_bg.
Geometries ==
  { [block_size |-> 1024, blocks_per_group |-> 8192, first_data_block |-> 1,
     blocks_count |-> 16485, flex_bg |-> FALSE, metadata_csum |-> TRUE,
     desc_size |-> 64],
    [block_size |-> 2048, blocks_per_group |-> 16000, first_data_block |-> 0,
     blocks_count |-> 32200, flex_bg |-> TRUE, metadata_csum |-> FALSE,
     desc_size |-> 32],
    [block_size |-> 1024, blocks_per_group |-> 8192, first_data_block |-> 1,
     blocks_count |-> 16385, flex_bg |-> TRUE, metadata_csum |-> TRUE,
     desc_size |-> 32] }

ext4_sb_get_block_size(s) == s.block_size

\* Bits held by one bitmap block.
BitmapBits(s) == ext4_sb_get_block_size(s) * 8

\* G: the groups cover blocks first_data_block .. blocks_count-1.
ext4_block_group_cnt(s) ==
  LET n == s.blocks_count - s.first_data_block
  IN  (n + s.blocks_per_group - 1) \div s.blocks_per_group

Groups(s) == 0 .. ext4_block_group_cnt(s) - 1

\* blocks_per_group for every group but the last, which gets the remainder.
ext4_blocks_in_group_cnt(s, bgid) ==
  IF bgid < ext4_block_group_cnt(s) - 1
    THEN s.blocks_per_group
    ELSE (s.blocks_count - s.first_data_block)
           - (ext4_block_group_cnt(s) - 1) * s.blocks_per_group

ext4_balloc_get_bgid_of_block(s, baddr) ==
  LET b == IF s.first_data_block # 0 /\ baddr # 0 THEN baddr - 1 ELSE baddr
  IN  b \div s.blocks_per_group

\* The product is computed in 32 bits in the source; every product of the
\* geometries above is far below 2^32.
ext4_balloc_get_block_of_bgid(s, bgid) ==
  (IF s.first_data_block # 0 THEN 1 ELSE 0) + bgid * s.blocks_per_group

ext4_fs_baddr2_index_in_group(s, baddr) ==
  LET b == IF s.first_data_block # 0 /\ baddr # 0 THEN baddr - 1 ELSE baddr
  IN  b % s.blocks_per_group

ext4_fs_index_in_group2_baddr(s, index, bgid) ==
  (IF s.first_data_block # 0 THEN 1 ELSE 0) + s.blocks_per_group * bgid + index

\* ------------------------------------------------------ bitmap primitives

ext4_bmap_is_bit_clr(bm, i) == i \in bm

ext4_bmap_bit_set(bm, i) == bm \ {i}

ext4_bmap_bit_clr(bm, i) == bm \cup {i}

ext4_bmap_bits_free(bm, start, count) == bm \cup (start .. start + count - 1)

\* Clear bits of bm in [start, end).
ClrIn(bm, start, end) == {j \in bm : start <= j /\ j < end}

Lowest(S) == CHOOSE j \in S : \A k \in S : j <= k

\* ext4_bmap_bit_find_clr: EOK and the lowest clear index of [start, end),
\* or ENOSPC.
ext4_bmap_bit_find_clr(bm, start, end) ==
  IF ClrIn(bm, start, end) = {}
    THEN [rc |-> ENOSPC, idx |-> 0]
    ELSE [rc |-> EOK, idx |-> Lowest(ClrIn(bm, start, end))]

\* -------------------------------------------------------- bitmap checksum

\* crc32c(crc32c(~0, uuid), bitmap[0 .. blocks_per_group/8)) as a value that
\* names the bytes it was computed over; the empty tuple is checksum 0
\* (no metadata_csum).
ext4_balloc_bitmap_csum(s, bm) ==
  IF s.metadata_csum
    THEN <<"crc32c", ClrIn(bm, 0, (s.blocks_per_group \div 8) * 8)>>
    ELSE <<>>

\* The low and high 16 bits of a checksum.
Lo16(c) == <<"lo", c>>

Hi16(c) == <<"hi", c>>

\* block_bitmap_csum_lo is always written, block_bitmap_csum_hi only with
\* 64-byte descriptors.  d is the group descriptor.
ext4_balloc_set_bitmap_csum(s, d, bm) ==
  LET checksum == ext4_balloc_bitmap_csum(s, bm)
  IN  [d EXCEPT !.block_bitmap_csum_lo = Lo16(checksum),
                !.block_bitmap_csum_hi =
                   IF s.desc_size = EXT4_MAX_BLOCK_GROUP_DESCRIPTOR_SIZE
                     THEN Hi16(checksum) ELSE @]

\* ------------------------------------------------- handles and I/O events

\* The resource events of one allocator call, in execution order:
\*   get  : ext4_fs_get_block_group_ref was called and returned EOK iff ok
\*          (a handle is held iff ok);
\*   put  : ext4_fs_put_block_group_ref was called with bg_ref.dirty = dirty
\*          and returned EOK iff ok;
\*   bget : ext4_block_get was called and returned EOK iff ok (a bitmap
\*          buffer is held iff ok);
\*   bset : ext4_block_set was called with bitmap_block.dirty = dirty and
\*          returned EOK iff ok;
\*   count: the free-block counters and inode.blocks_count were written.
Ev(e, g, dirty, ok) == [e |-> e, g |-> g, dirty |-> dirty, ok |-> ok]

EvGet(g) == Ev("get", g, FALSE, TRUE)

EvGetFailed(g) == Ev("get", g, FALSE, FALSE)

EvPut(g, dirty, ok) == Ev("put", g, dirty, ok)

EvBget(g) == Ev("bget", g, FALSE, TRUE)

EvBgetFailed(g) == Ev("bget", g, FALSE, FALSE)

EvBset(g, dirty, ok) == Ev("bset", g, dirty, ok)

EvCount(g) == Ev("count", g, FALSE, TRUE)

\* The filesystem state an allocator call works on.
FsState == [sb |-> sb, bg |-> bg, bitmap |-> bitmap, inode |-> inode]

\* What a call returns: the state it leaves, its return code, *fblock,
\* *free, its resource events, and left: the value of count at the final
\* assertion of free_range (-1 when the call did not reach one).
Ret(S, rc, fblock, free, ev) ==
  [st |-> S, rc |-> rc, fblock |-> fblock, free |-> free, ev |-> ev,
   left |-> -1]

\* Mutant of WithBitmap: the checksum is not stamped.
WithBitmap_NoStamp(S, g, data) == [S EXCEPT !.bitmap[g] = data]

\* The bitmap of group g with its contents replaced, the checksum stamped
\* into the descriptor.
WithBitmap(S, g, data) ==
  [S EXCEPT !.bitmap[g] = data,
            !.bg[g] = ext4_balloc_set_bitmap_csum(S.sb, S.bg[g], data)]

\* ext4_block_set of a bitmap buffer: S1, the state with the buffer's
\* contents, when the store succeeds; when it fails the filesystem is
\* logically unchanged (the modified in-memory buffer is discarded): S0.
ext4_block_set(S0, S1, ok) == IF ok THEN S1 ELSE S0

\* ------------------------------------------------------------- free_one

\* Mutant of FreeBlockCounters: inode.blocks_count is not written.
FreeBlockCounters_NoInode(S, g) ==
  [S EXCEPT !.sb.free_blocks_count = @ + 1,
            !.bg[g].free_blocks_count = @ + 1]

\* Lines 159-178: superblock free count + 1, inode blocks - B/512, group
\* free count + 1.
FreeBlockCounters(S, g) ==
  [S EXCEPT !.sb.free_blocks_count = @ + 1,
            !.inode.blocks_count =
               @ - ext4_sb_get_block_size(S.sb) \div EXT4_INODE_BLOCK_SIZE,
            !.bg[g].free_blocks_count = @ + 1]

\* Lines 152-157: the bitmap store failed.
FreeBlockSetFailed(S, g, ev) ==
  Ret(S, EIO, 0, FALSE,
      ev \o <<EvBset(g, TRUE, FALSE), EvPut(g, FALSE, TRUE)>>)

ext4_balloc_free_block(S, baddr, f) ==
  LET s == S.sb
      block_group == ext4_balloc_get_bgid_of_block(s, baddr)
      index_in_group == ext4_fs_baddr2_index_in_group(s, baddr)
      S1 == WithBitmap(S, block_group,
                       ext4_bmap_bit_clr(S.bitmap[block_group], index_in_group))
      ev2 == <<EvGet(block_group), EvBget(block_group)>>
  IN  IF f = 1 THEN Ret(S, EIO, 0, FALSE, <<EvGetFailed(block_group)>>)
      ELSE IF f = 2
        THEN Ret(S, EIO, 0, FALSE,
                 <<EvGet(block_group), EvBgetFailed(block_group),
                   EvPut(block_group, FALSE, TRUE)>>)
      ELSE IF f = 3
        THEN FreeBlockSetFailed(ext4_block_set(S, S1, FALSE), block_group, ev2)
      ELSE Ret(FreeBlockCounters(ext4_block_set(S, S1, TRUE), block_group),
               IF f = 4 THEN EIO ELSE EOK, 0, FALSE,
               ev2 \o <<EvBset(block_group, TRUE, TRUE), EvCount(block_group),
                        EvPut(block_group, TRUE, f # 4)>>)

\* -------------------------------------------------------------- try_one

\* Mutant of TryAllocCounters: inode.blocks_count is not written.
TryAllocCounters_NoInode(S, g) ==
  [S EXCEPT !.sb.free_blocks_count = @ - 1,
            !.bg[g].free_blocks_count = @ - 1]

\* Lines 577-596: superblock free count - 1, inode blocks + B/512, group
\* free count - 1.
TryAllocCounters(S, g) ==
  [S EXCEPT !.sb.free_blocks_count = @ - 1,
            !.inode.blocks_count =
               @ + ext4_sb_get_block_size(S.sb) \div EXT4_INODE_BLOCK_SIZE,
            !.bg[g].free_blocks_count = @ - 1]

\* Mutant of TryAllocSetFailed: the counters are written although the
\* bitmap store failed.
TryAllocSetFailed_Counted(S, g, free, ev) ==
  Ret(IF free
        THEN [S EXCEPT !.sb.free_blocks_count = @ - 1,
                       !.bg[g].free_blocks_count = @ - 1]
        ELSE S,
      EIO, 0, free,
      ev \o <<EvBset(g, free, FALSE), EvPut(g, FALSE, TRUE)>>)

\* Lines 566-571: the bitmap store failed.
TryAllocSetFailed(S, g, free, ev) ==
  Ret(S, EIO, 0, free,
      ev \o <<EvBset(g, free, FALSE), EvPut(g, FALSE, TRUE)>>)

\* Mutant of TryAllocFree: every block is reported free.
TryAllocFree_Always(S, g, i) == TRUE

\* Line 554: *free = ext4_bmap_is_bit_clr(bitmap_block.data, index_in_group).
TryAllocFree(S, g, i) == ext4_bmap_is_bit_clr(S.bitmap[g], i)

\* Mutant of TryAllocClaim: the bit is tested but never set.
TryAllocClaim_NoSet(S, g, i) == S

\* Lines 554-563: test the bit and claim it when it is clear.
TryAllocClaim(S, g, i) ==
  IF ext4_bmap_is_bit_clr(S.bitmap[g], i)
    THEN WithBitmap(S, g, ext4_bmap_bit_set(S.bitmap[g], i))
    ELSE S

ext4_balloc_try_alloc_block(S, baddr, f) ==
  LET s == S.sb
      block_group == ext4_balloc_get_bgid_of_block(s, baddr)
      index_in_group == ext4_fs_baddr2_index_in_group(s, baddr)
      free == TryAllocFree(S, block_group, index_in_group)
      S1 == TryAllocClaim(S, block_group, index_in_group)
      ev2 == <<EvGet(block_group), EvBget(block_group)>>
  IN  IF f = 1 THEN Ret(S, EIO, 0, FALSE, <<EvGetFailed(block_group)>>)
      ELSE IF f = 2
        THEN Ret(S, EIO, 0, FALSE,
                 <<EvGet(block_group), EvBgetFailed(block_group),
                   EvPut(block_group, FALSE, TRUE)>>)
      ELSE IF f = 3
        THEN TryAllocSetFailed(ext4_block_set(S, S1, FALSE), block_group,
                               free, ev2)
      ELSE IF ~free
        THEN Ret(ext4_block_set(S, S1, TRUE), IF f = 4 THEN EIO ELSE EOK,
                 0, FALSE,
                 ev2 \o <<EvBset(block_group, FALSE, TRUE),
                          EvPut(block_group, FALSE, f # 4)>>)
      ELSE Ret(TryAllocCounters(ext4_block_set(S, S1, TRUE), block_group),
               IF f = 4 THEN EIO ELSE EOK, 0, TRUE,
               ev2 \o <<EvBset(block_group, TRUE, TRUE), EvCount(block_group),
                        EvPut(block_group, TRUE, f # 4)>>)

\* ------------------------------------------------------------ free_range

\* Lines 229-233: the number of bits cleared in the group of `first`.
FreeBlocksCnt(s, index_in_group_first, count) ==
  LET free_cnt == ext4_sb_get_block_size(s) * 8 - index_in_group_first
  IN  IF count > free_cnt THEN free_cnt ELSE count

\* Lines 252-272: superblock free count + free_cnt, inode blocks
\* - free_cnt * (B/512), group free count + free_cnt.
FreeBlocksCounters(S, g, free_cnt) ==
  [S EXCEPT !.sb.free_blocks_count = @ + free_cnt,
            !.inode.blocks_count =
               @ - free_cnt * (ext4_sb_get_block_size(S.sb)
                                 \div EXT4_INODE_BLOCK_SIZE),
            !.bg[g].free_blocks_count = @ + free_cnt]

\* Mutant of FreeBlocksSetFailed: returns without putting the group handle.
FreeBlocksSetFailed_NoPut(S, g, ev) ==
  Ret(S, EIO, 0, FALSE, ev \o <<EvBset(g, TRUE, FALSE)>>)

\* Lines 246-250: the bitmap store failed.
FreeBlocksSetFailed(S, g, ev) ==
  Ret(S, EIO, 0, FALSE,
      ev \o <<EvBset(g, TRUE, FALSE), EvPut(g, FALSE, TRUE)>>)

\* Lines 207-284: the loop over the groups block_group_first ..
\* block_group_last and the final assertion; io is the number of I/O calls
\* made so far.
RECURSIVE FreeBlocksLoop(_, _, _, _, _, _, _, _)
FreeBlocksLoop(S, block_group_first, block_group_last, first, count, io, ev, f) ==
  IF block_group_first > block_group_last
    THEN [Ret(S, EOK, 0, FALSE, ev) EXCEPT !.left = count]
    ELSE
      LET s == S.sb
          g == block_group_first
          index_in_group_first == ext4_fs_baddr2_index_in_group(s, first)
          free_cnt == FreeBlocksCnt(s, index_in_group_first, count)
          S1 == WithBitmap(S, g, ext4_bmap_bits_free(S.bitmap[g],
                                     index_in_group_first, free_cnt))
          ev2 == ev \o <<EvGet(g), EvBget(g)>>
          S2 == FreeBlocksCounters(ext4_block_set(S, S1, TRUE), g, free_cnt)
          ev4 == ev2 \o <<EvBset(g, TRUE, TRUE), EvCount(g),
                          EvPut(g, TRUE, f # io + 4)>>
      IN  IF f = io + 1 THEN Ret(S, EIO, 0, FALSE, ev \o <<EvGetFailed(g)>>)
          ELSE IF f = io + 2
            THEN Ret(S, EIO, 0, FALSE,
                     ev \o <<EvGet(g), EvBgetFailed(g),
                             EvPut(g, FALSE, TRUE)>>)
          ELSE IF f = io + 3
            THEN FreeBlocksSetFailed(ext4_block_set(S, S1, FALSE), g, ev2)
          ELSE IF f = io + 4
            THEN [Ret(S2, EIO, 0, FALSE, ev4) EXCEPT !.left = count - free_cnt]
          ELSE FreeBlocksLoop(S2, g + 1, block_group_last, first + free_cnt,
                              count - free_cnt, io + 4, ev4, f)

\* Lines 198-203: without flex_bg the range lies in one group (asserted).
FreeBlocksAssert(s, first, count) ==
  s.flex_bg \/ ext4_balloc_get_bgid_of_block(s, first)
                 = ext4_balloc_get_bgid_of_block(s, first + count - 1)

ext4_balloc_free_blocks(S, first, count, f) ==
  FreeBlocksLoop(S, ext4_balloc_get_bgid_of_block(S.sb, first),
                 ext4_balloc_get_bgid_of_block(S.sb, first + count - 1),
                 first, count, 0, <<>>, f)

\* ---------------------------------------------------------------- alloc

\* Mutant of AllocCounters: the group descriptor's count is not written.
AllocCounters_NoGroup(S, g) ==
  [S EXCEPT !.sb.free_blocks_count = @ - 1,
            !.inode.blocks_count =
               @ + ext4_sb_get_block_size(S.sb) \div EXT4_INODE_BLOCK_SIZE]

\* Lines 497-516: superblock free count - 1, inode blocks + B/512, free
\* count of the group of bg_ref - 1.
AllocCounters(S, g) ==
  [S EXCEPT !.sb.free_blocks_count = @ - 1,
            !.inode.blocks_count =
               @ + ext4_sb_get_block_size(S.sb) \div EXT4_INODE_BLOCK_SIZE,
            !.bg[g].free_blocks_count = @ - 1]

\* Lines 493-521 (success:): S already holds the claimed bit of
\* allocated_block in group g; the bitmap store was I/O call io.
AllocSuccess(S, g, allocated_block, io, ev, f) ==
  Ret(AllocCounters(S, g), IF f = io + 1 THEN EIO ELSE EOK,
      allocated_block, FALSE,
      ev \o <<EvBset(g, TRUE, TRUE), EvCount(g), EvPut(g, TRUE, f # io + 1)>>)

\* Lines 342-345, 399-402, 463-466, 475-478: a failed bitmap store after
\* which the group handle is put.
AllocSetFailedPut(S, g, dirty, ev) ==
  Ret(S, EIO, 0, FALSE,
      ev \o <<EvBset(g, dirty, FALSE), EvPut(g, FALSE, TRUE)>>)

\* Lines 368-370 and 387-389: a failed bitmap store that returns at once.
AllocSetFailedReturn(S, g, ev) ==
  Ret(S, EIO, 0, FALSE, ev \o <<EvBset(g, TRUE, FALSE)>>)

\* Lines 355-357.
AllocEndIdx(index_in_group, blocks_in_group) ==
  LET end_idx == ((index_in_group + 63) \div 64) * 64
  IN  IF end_idx > blocks_in_group THEN blocks_in_group ELSE end_idx

\* Mutant of AllocNear: the scan starts at the first bit of the group.
AllocNear_FromStart(bm, index_in_group, blocks_in_group) ==
  ClrIn(bm, 0, AllocEndIdx(index_in_group, blocks_in_group))

\* Mutant of AllocNear: the scan takes the bit after the goal without
\* testing it.
AllocNear_NoTest(bm, index_in_group, blocks_in_group) ==
  index_in_group + 1 .. AllocEndIdx(index_in_group, blocks_in_group) - 1

\* Lines 360-377: the clear bits the scan near the goal can meet; it takes
\* the lowest.
AllocNear(bm, index_in_group, blocks_in_group) ==
  ClrIn(bm, index_in_group + 1, AllocEndIdx(index_in_group, blocks_in_group))

\* Mutant of AllocFindInGroup: the highest clear bit of the group is taken.
AllocFindInGroup_Highest(s, bm, bgid) ==
  LET clr == ClrIn(bm, 0, ext4_blocks_in_group_cnt(s, bgid))
  IN  IF clr = {} THEN [rc |-> ENOSPC, idx |-> 0]
      ELSE [rc |-> EOK, idx |-> CHOOSE j \in clr : \A k \in clr : k <= j]

\* Lines 440-453: the search of a group of the linear wrap.
AllocFindInGroup(s, bm, bgid) ==
  LET first_in_group == ext4_balloc_get_block_of_bgid(s, bgid)
      idx == ext4_fs_baddr2_index_in_group(s, first_in_group)
      first_in_group_index == ext4_fs_baddr2_index_in_group(s, first_in_group)
      index_in_group == IF idx < first_in_group_index
                          THEN first_in_group_index ELSE idx
  IN  ext4_bmap_bit_find_clr(bm, index_in_group,
                             ext4_blocks_in_group_cnt(s, bgid))

\* Lines 416-491: the linear wrap over count groups starting at bgid.
RECURSIVE AllocOtherGroups(_, _, _, _, _, _)
AllocOtherGroups(S, bgid, count, io, ev, f) ==
  IF count = 0 THEN Ret(S, ENOSPC, 0, FALSE, ev)
  ELSE
    LET s == S.sb
        block_group_count == ext4_block_group_cnt(s)
        next == (bgid + 1) % block_group_count
        found == AllocFindInGroup(s, S.bitmap[bgid], bgid)
        S1 == WithBitmap(S, bgid, ext4_bmap_bit_set(S.bitmap[bgid], found.idx))
        ev1 == ev \o <<EvGet(bgid)>>
        ev2 == ev1 \o <<EvBget(bgid)>>
    IN  IF f = io + 1 THEN Ret(S, EIO, 0, FALSE, ev \o <<EvGetFailed(bgid)>>)
        ELSE IF S.bg[bgid].free_blocks_count = 0
          THEN \* next_group
            IF f = io + 2
              THEN Ret(S, EIO, 0, FALSE, ev1 \o <<EvPut(bgid, FALSE, FALSE)>>)
              ELSE AllocOtherGroups(S, next, count - 1, io + 2,
                                    ev1 \o <<EvPut(bgid, FALSE, TRUE)>>, f)
        ELSE IF f = io + 2
          THEN Ret(S, EIO, 0, FALSE,
                   ev1 \o <<EvBgetFailed(bgid), EvPut(bgid, FALSE, TRUE)>>)
        ELSE IF found.rc = EOK
          THEN IF f = io + 3
                 THEN AllocSetFailedPut(ext4_block_set(S, S1, FALSE), bgid,
                                        TRUE, ev2)
                 ELSE AllocSuccess(ext4_block_set(S, S1, TRUE), bgid,
                        ext4_fs_index_in_group2_baddr(s, found.idx, bgid),
                        io + 3, ev2, f)
        ELSE IF f = io + 3
          THEN AllocSetFailedPut(S, bgid, FALSE, ev2)
        ELSE IF f = io + 4
          THEN Ret(S, EIO, 0, FALSE,
                   ev2 \o <<EvBset(bgid, FALSE, TRUE),
                            EvPut(bgid, FALSE, FALSE)>>)
        ELSE AllocOtherGroups(S, next, count - 1, io + 4,
                              ev2 \o <<EvBset(bgid, FALSE, TRUE),
                                       EvPut(bgid, FALSE, TRUE)>>, f)

\* Mutant of AllocGoalFailed: the walk visits G - 1 groups and never comes
\* back to the goal group.
AllocGoalFailed_SkipGoalGroup(S, block_group, io, ev, f) ==
  LET block_group_count == ext4_block_group_cnt(S.sb)
  IN  IF f = io + 1
        THEN Ret(S, EIO, 0, FALSE, ev \o <<EvPut(block_group, FALSE, FALSE)>>)
        ELSE AllocOtherGroups(S, (block_group + 1) % block_group_count,
                              block_group_count - 1, io + 1,
                              ev \o <<EvPut(block_group, FALSE, TRUE)>>, f)

\* Lines 404-414 (goal_failed:): put the handle of the goal group, then
\* walk the groups from (block_group + 1) % G; the put is I/O call io + 1.
AllocGoalFailed(S, block_group, io, ev, f) ==
  LET block_group_count == ext4_block_group_cnt(S.sb)
  IN  IF f = io + 1
        THEN Ret(S, EIO, 0, FALSE, ev \o <<EvPut(block_group, FALSE, FALSE)>>)
        ELSE AllocOtherGroups(S, (block_group + 1) % block_group_count,
                              block_group_count, io + 1,
                              ev \o <<EvPut(block_group, FALSE, TRUE)>>, f)

\* Lines 316-402: the goal group, entered with its handle held and a free
\* count > 0; block_get is I/O call 2, the bitmap store I/O call 3.
AllocGoalGroup(S, block_group, goal_index, f) ==
  LET s == S.sb
      g == block_group
      bm == S.bitmap[g]
      first_in_group == ext4_balloc_get_block_of_bgid(s, g)
      first_in_group_index == ext4_fs_baddr2_index_in_group(s, first_in_group)
      index_in_group == IF goal_index < first_in_group_index
                          THEN first_in_group_index ELSE goal_index
      blocks_in_group == ext4_blocks_in_group_cnt(s, g)
      near == AllocNear(bm, index_in_group, blocks_in_group)
      found == ext4_bmap_bit_find_clr(bm, index_in_group, blocks_in_group)
      Claim(i) == WithBitmap(S, g, ext4_bmap_bit_set(bm, i))
      ev2 == <<EvGet(g), EvBget(g)>>
  IN  IF f = 2
        THEN Ret(S, EIO, 0, FALSE,
                 <<EvGet(g), EvBgetFailed(g), EvPut(g, FALSE, TRUE)>>)
      ELSE IF ext4_bmap_is_bit_clr(bm, index_in_group)
        THEN IF f = 3
               THEN AllocSetFailedPut(
                      ext4_block_set(S, Claim(index_in_group), FALSE), g,
                      TRUE, ev2)
               ELSE AllocSuccess(
                      ext4_block_set(S, Claim(index_in_group), TRUE), g,
                      ext4_fs_index_in_group2_baddr(s, index_in_group, g),
                      3, ev2, f)
      ELSE IF near # {}
        THEN IF f = 3
               THEN AllocSetFailedReturn(
                      ext4_block_set(S, Claim(Lowest(near)), FALSE), g, ev2)
               ELSE AllocSuccess(
                      ext4_block_set(S, Claim(Lowest(near)), TRUE), g,
                      ext4_fs_index_in_group2_baddr(s, Lowest(near), g),
                      3, ev2, f)
      ELSE IF found.rc = EOK
        THEN IF f = 3
               THEN AllocSetFailedReturn(
                      ext4_block_set(S, Claim(found.idx), FALSE), g, ev2)
               ELSE AllocSuccess(
                      ext4_block_set(S, Claim(found.idx), TRUE), g,
                      ext4_fs_index_in_group2_baddr(s, found.idx, g),
                      3, ev2, f)
      ELSE IF f = 3
        THEN AllocSetFailedPut(S, g, FALSE, ev2)
      ELSE AllocGoalFailed(S, g, 3, ev2 \o <<EvBset(g, FALSE, TRUE)>>, f)

ext4_balloc_alloc_block(S, goal, f) ==
  LET s == S.sb
      block_group == ext4_balloc_get_bgid_of_block(s, goal)
      index_in_group == ext4_fs_baddr2_index_in_group(s, goal)
  IN  IF f = 1 THEN Ret(S, EIO, 0, FALSE, <<EvGetFailed(block_group)>>)
      ELSE IF S.bg[block_group].free_blocks_count = 0
        THEN AllocGoalFailed(S, block_group, 1, <<EvGet(block_group)>>, f)
      ELSE AllocGoalGroup(S, block_group, index_in_group, f)

\* ----------------------------------------------------------------- inputs

\* The block at index idx of group g.
Blk(s, g, idx) == ext4_fs_index_in_group2_baddr(s, idx, g)

LastGroup(s) == ext4_block_group_cnt(s) - 1

\* Goals passed to alloc: in group 0 before a free block of the same
\* 64-bit word and past the first word boundary, and the first block of
\* group 1.
Goals(s) == { Blk(s, 0, 5), Blk(s, 0, 70), Blk(s, 1, 0) }

\* Addresses passed to try_one: two blocks of group 0 and the last block
\* of the filesystem.
TryAddrs(s) ==
  { Blk(s, 0, 5), Blk(s, 0, 7),
    Blk(s, LastGroup(s), ext4_blocks_in_group_cnt(s, LastGroup(s)) - 1) }

\* Addresses passed to free_one.
FreeAddrs(s) == { Blk(s, 0, 5), Blk(s, 0, 7), Blk(s, 1, 0) }

\* Ranges <<first, count>> passed to free_range: inside group 0, and
\* across the boundary of groups 0 and 1.
Ranges(s) ==
  { <<Blk(s, 0, 5), 3>>, <<Blk(s, 0, s.blocks_per_group - 1), 2>> }

\* The block-device and block-group layer calls a result's events record.
IoCalls(ev) ==
  Cardinality({k \in 1 .. Len(ev) : ev[k].e \in {"get", "put", "bget", "bset"}})

\* Initial bitmaps (clear bit indices per group): a few free blocks in
\* groups 0 and 1, or a single free block, the last of the filesystem.
Layouts(s) ==
  { [g \in Groups(s) |-> IF g = 0 THEN {7, 200}
                         ELSE IF g = 1 THEN {0} ELSE {}],
    [g \in Groups(s) |-> IF g = LastGroup(s)
                           THEN {ext4_blocks_in_group_cnt(s, g) - 1}
                           ELSE {}] }

\* ---------------------------------------------------------- state machine

InRange(s, b) == s.first_data_block <= b /\ b < s.blocks_count

BitSet(S, b) ==
  ~ext4_bmap_is_bit_clr(S.bitmap[ext4_balloc_get_bgid_of_block(S.sb, b)],
                        ext4_fs_baddr2_index_in_group(S.sb, b))

\* The bitmaps and the counters of a filesystem state.
Counted(S) ==
  [bitmap |-> S.bitmap,
   sb_free |-> S.sb.free_blocks_count,
   bg_free |-> [g \in DOMAIN S.bg |-> S.bg[g].free_blocks_count],
   ino_blocks |-> S.inode.blocks_count]

\* The record of the latest call: its operation and arguments (a: goal,
\* baddr or first; n: count; f: the failing I/O call) and what it returned;
\*   follows: "try_one" when the call is a try_one that repeats the
\*            try_one just before it (same address, no I/O failure in the
\*            first), "alloc" when it is a free_one of the block the
\*            successful alloc just before it returned, "" otherwise;
\*   pre    : for a successful alloc, the bitmaps and counters before it.
Last(op, a, n, f, r) ==
  [op |-> op, a |-> a, n |-> n, f |-> f, rc |-> r.rc, fblock |-> r.fblock,
   free |-> r.free, ev |-> r.ev, left |-> r.left, follows |-> "",
   pre |-> <<>>]

\* History of the behaviour (not program state):
\*   calls : allocator calls made;
\*   handed: addresses handed out (alloc returned EOK with them, or try_one
\*           returned EOK with *free = true) and not covered by a free_one
\*           or free_range call since;
\*   freed : addresses that were handed out and then covered by a free_one
\*           or free_range call;
\*   errs  : calls that returned an I/O error;
\*   clean : errs = 0, and every free call so far targeted only in-range
\*           blocks whose bits were set;
\*   net   : blocks handed out minus blocks released by calls that
\*           returned EOK.
Hist(calls, handed, freed, errs, clean, net) ==
  [calls |-> calls, handed |-> handed, freed |-> freed, errs |-> errs,
   clean |-> clean, net |-> net]

Errs(r) == IF r.rc = EIO THEN hist.errs + 1 ELSE hist.errs

\* The sum of the group descriptors' free_blocks_count over groups 0 .. g.
RECURSIVE SumFree(_, _)
SumFree(d, g) ==
  IF g < 0 THEN 0 ELSE d[g].free_blocks_count + SumFree(d, g - 1)

\* The group descriptors of a consistent filesystem with bitmaps lay: the
\* free count is the number of clear bits of the valid prefix, the
\* checksum is that of the bitmap.
InitBg(s, lay) ==
  [g \in Groups(s) |->
     ext4_balloc_set_bitmap_csum(s,
       [free_blocks_count |->
          Cardinality(ClrIn(lay[g], 0, ext4_blocks_in_group_cnt(s, g))),
        block_bitmap_csum_lo |-> Lo16(<<>>),
        block_bitmap_csum_hi |-> Hi16(<<>>)],
       lay[g])]

\* A mounted filesystem of geometry s with bitmaps lay, before any call.
InitWith(s, lay) ==
  /\ /\ bitmap = lay
       /\ bg = InitBg(s, lay)
       /\ sb = [block_size |-> s.block_size,
                blocks_per_group |-> s.blocks_per_group,
                first_data_block |-> s.first_data_block,
                blocks_count |-> s.blocks_count,
                flex_bg |-> s.flex_bg,
                metadata_csum |-> s.metadata_csum,
                desc_size |-> s.desc_size,
                free_blocks_count |-> SumFree(InitBg(s, lay), LastGroup(s))]
  /\ inode = [blocks_count |-> 0]
  /\ last = [op |-> "none", a |-> 0, n |-> 0, f |-> 0, rc |-> EOK,
             fblock |-> 0, free |-> FALSE, ev |-> <<>>, left |-> -1,
             follows |-> "", pre |-> <<>>]
  /\ hist = Hist(0, {}, {}, 0, TRUE, 0)

Init == \E s \in Geometries : \E lay \in Layouts(s) : InitWith(s, lay)

\* The program state after a call that returned r.
Becomes(r) ==
  /\ sb' = r.st.sb
  /\ bg' = r.st.bg
  /\ bitmap' = r.st.bitmap
  /\ inode' = r.st.inode

\* The inode holds at least k blocks (blocks_count is unsigned: an inode
\* releases only blocks it holds).
Holds(k) ==
  inode.blocks_count
    >= k * (ext4_sb_get_block_size(sb) \div EXT4_INODE_BLOCK_SIZE)

\* The caller makes another call.
CanCall == hist.calls < MaxCalls /\ hist.errs < MaxFaults

\* alloc(inode, goal) for a goal of goals.
AllocOf(goals) ==
  /\ CanCall
  /\ \E goal \in goals :
       \E f \in 0 .. IoCalls(ext4_balloc_alloc_block(FsState, goal, 0).ev) :
         LET r == ext4_balloc_alloc_block(FsState, goal, f)
         IN  /\ Becomes(r)
             /\ last' = [Last("alloc", goal, 0, f, r) EXCEPT
                           !.pre = IF r.rc = EOK THEN Counted(FsState)
                                                 ELSE <<>>]
             /\ hist' = Hist(hist.calls + 1,
                             IF r.rc = EOK THEN hist.handed \cup {r.fblock}
                                           ELSE hist.handed,
                             hist.freed,
                             Errs(r),
                             hist.clean /\ r.rc # EIO,
                             IF r.rc = EOK THEN hist.net + 1 ELSE hist.net)

\* try_one(inode, baddr) for an address of addrs.
TryAllocOf(addrs) ==
  /\ CanCall
  /\ \E baddr \in addrs :
       \E f \in 0 .. IoCalls(ext4_balloc_try_alloc_block(FsState, baddr, 0).ev) :
         LET r == ext4_balloc_try_alloc_block(FsState, baddr, f)
             got == r.rc = EOK /\ r.free
         IN  /\ Becomes(r)
             /\ last' = [Last("try_one", baddr, 0, f, r) EXCEPT
                           !.follows =
                              IF /\ last.op = "try_one" /\ last.a = baddr
                                 /\ last.f = 0
                                THEN "try_one" ELSE ""]
             /\ hist' = Hist(hist.calls + 1,
                             IF got THEN hist.handed \cup {baddr}
                                    ELSE hist.handed,
                             hist.freed,
                             Errs(r),
                             hist.clean /\ r.rc # EIO,
                             IF got THEN hist.net + 1 ELSE hist.net)

\* free_one(inode, baddr) for an address of addrs.
FreeOneOf(addrs) ==
  /\ CanCall
  /\ Holds(1)
  /\ \E baddr \in addrs :
       \E f \in 0 .. IoCalls(ext4_balloc_free_block(FsState, baddr, 0).ev) :
         LET r == ext4_balloc_free_block(FsState, baddr, f)
         IN  /\ Becomes(r)
             /\ last' = [Last("free_one", baddr, 0, f, r) EXCEPT
                           !.follows =
                              IF /\ last.op = "alloc" /\ last.rc = EOK
                                 /\ last.fblock = baddr
                                THEN "alloc" ELSE ""]
             /\ hist' = Hist(hist.calls + 1,
                             hist.handed \ {baddr},
                             hist.freed \cup (hist.handed \cap {baddr}),
                             Errs(r),
                             /\ hist.clean
                             /\ r.rc # EIO
                             /\ InRange(sb, baddr)
                             /\ BitSet(FsState, baddr),
                             IF r.rc = EOK THEN hist.net - 1 ELSE hist.net)

\* free_range(inode, first, count) for a range of ranges.
FreeRangeOf(ranges) ==
  /\ CanCall
  /\ \E rg \in ranges :
       LET first == rg[1]
           count == rg[2]
           blocks == first .. first + count - 1
       IN  /\ Holds(count)
           /\ FreeBlocksAssert(sb, first, count)
           /\ \E f \in 0 .. IoCalls(ext4_balloc_free_blocks(FsState, first,
                                                           count, 0).ev) :
                LET r == ext4_balloc_free_blocks(FsState, first, count, f)
                IN  /\ Becomes(r)
                    /\ last' = Last("free_range", first, count, f, r)
                    /\ hist' = Hist(hist.calls + 1,
                                    hist.handed \ blocks,
                                    hist.freed \cup (hist.handed \cap blocks),
                                    Errs(r),
                                    /\ hist.clean
                                    /\ r.rc # EIO
                                    /\ \A b \in blocks :
                                         InRange(sb, b) /\ BitSet(FsState, b),
                                    IF r.rc = EOK THEN hist.net - count
                                                  ELSE hist.net)

Alloc == AllocOf(Goals(sb))

TryAlloc == TryAllocOf(TryAddrs(sb))

FreeOne == FreeOneOf(FreeAddrs(sb))

FreeRange == FreeRangeOf(Ranges(sb))

Next == Alloc \/ TryAlloc \/ FreeOne \/ FreeRange

Spec == Init /\ [][Next]_vars

\* ------------------------------------------- calls that name address 0

\* first_data_block = 1: block 0 is reserved and block 1 is bit 0 of
\* group 0.  The callers below pass address 0 (and one valid goal, so that
\* the inode comes to hold blocks).
ReservedGeometries == {s \in Geometries : s.first_data_block = 1}

\* Bitmaps with the bit of block 1 clear, and those of Layouts (bit set).
ReservedLayouts(s) ==
  Layouts(s) \cup {[g \in Groups(s) |-> IF g = 0 THEN {0, 7} ELSE {}]}

InitReserved ==
  \E s \in ReservedGeometries : \E lay \in ReservedLayouts(s) :
    InitWith(s, lay)

AllocReserved == AllocOf({0, Blk(sb, 0, 5)})

TryAllocReserved == TryAllocOf({0})

FreeOneReserved == FreeOneOf({0})

FreeRangeReserved == FreeRangeOf({<<0, 1>>})

NextReserved ==
  AllocReserved \/ TryAllocReserved \/ FreeOneReserved \/ FreeRangeReserved

SpecReserved == InitReserved /\ [][NextReserved]_vars

\* ------------------------------------------------- the search order of alloc

\* Geometries for the search order: a single short group (G = 1), and
\* three groups the last of which is short.
ScanGeometries ==
  { [block_size |-> 1024, blocks_per_group |-> 8192, first_data_block |-> 1,
     blocks_count |-> 301, flex_bg |-> FALSE, metadata_csum |-> FALSE,
     desc_size |-> 32],
    [block_size |-> 1024, blocks_per_group |-> 8192, first_data_block |-> 0,
     blocks_count |-> 16484, flex_bg |-> FALSE, metadata_csum |-> FALSE,
     desc_size |-> 32] }

\* Bitmaps: in group 0 any subset of a few indices around the goals and
\* the 64-bit word boundaries is clear; every other group is full, or has
\* its first block free, or two blocks further in.
ScanLayouts(s) ==
  { [g \in Groups(s) |-> IF g = 0 THEN first ELSE rest[g]] :
      first \in SUBSET {3, 5, 7, 64, 130},
      rest \in [Groups(s) -> {{}, {0}, {9, 40}}] }

\* Goals: in group 0 just before a word boundary's worth of bits, on a
\* multiple of 64, and past one; and the first block of the last group.
ScanGoals(s) ==
  { Blk(s, 0, 5), Blk(s, 0, 64), Blk(s, 0, 70), Blk(s, LastGroup(s), 0) }

InitScan ==
  \E s \in ScanGeometries : \E lay \in ScanLayouts(s) : InitWith(s, lay)

\* alloc(inode, goal) none of whose I/O calls fails.
ScanAlloc ==
  /\ hist.calls < MaxScanCalls
  /\ \E goal \in ScanGoals(sb) :
       LET r == ext4_balloc_alloc_block(FsState, goal, 0)
       IN  /\ Becomes(r)
           /\ last' = Last("alloc", goal, 0, 0, r)
           /\ hist' = Hist(hist.calls + 1,
                           IF r.rc = EOK THEN hist.handed \cup {r.fblock}
                                         ELSE hist.handed,
                           hist.freed, hist.errs, hist.clean,
                           IF r.rc = EOK THEN hist.net + 1 ELSE hist.net)

NextScan == ScanAlloc

SpecScan == InitScan /\ [][NextScan]_vars

\* ------------------------------------- geometry in the widths of the source

\* An unsigned integer of the source is a sequence of base-256 digits, least
\* significant first: 4 digits for uint32_t, 8 for uint64_t.  The values of
\* the geometry functions can pass 2^31, so they are computed digit by
\* digit, exactly to their width.

RECURSIVE Digits(_, _)
\* The len-digit representation of the natural number n (mod 256^len).
Digits(n, len) ==
  IF len = 0 THEN <<>> ELSE <<n % 256>> \o Digits(n \div 256, len - 1)

U32(n) == Digits(n, 4)

U64(n) == Digits(n, 8)

\* Digit k of a, zero-extended.
Digit(a, k) == IF k <= Len(a) THEN a[k] ELSE 0

RECURSIVE Carried(_, _, _, _)
\* Column sums cols[k ..] with carry added in, reduced to digits; the
\* carry out of digit len is dropped (arithmetic mod 256^len).
Carried(cols, k, carry, len) ==
  IF k > len THEN <<>>
  ELSE LET v == Digit(cols, k) + carry
       IN  <<v % 256>> \o Carried(cols, k + 1, v \div 256, len)

\* a + b mod 256^len.
WAdd(a, b, len) ==
  Carried([k \in 1 .. len |-> Digit(a, k) + Digit(b, k)], 1, 0, len)

\* a - b mod 256^len.
WSub(a, b, len) ==
  Carried([k \in 1 .. len |->
             Digit(a, k) + 255 - Digit(b, k) + (IF k = 1 THEN 1 ELSE 0)],
          1, 0, len)

RECURSIVE ColSum(_, _, _, _)
\* The sum of a[i] * b[j] over i + j = k + 1, from digit i of a on.
ColSum(a, b, k, i) ==
  IF i > Len(a) THEN 0
  ELSE (IF 1 <= k + 1 - i /\ k + 1 - i <= Len(b)
          THEN a[i] * b[k + 1 - i] ELSE 0) + ColSum(a, b, k, i + 1)

\* a * b mod 256^len.
WMul(a, b, len) ==
  Carried([k \in 1 .. len |-> ColSum(a, b, k, 1)], 1, 0, len)

RECURSIVE WLeqFrom(_, _, _)
WLeqFrom(a, b, k) ==
  IF k = 0 THEN TRUE
  ELSE IF Digit(a, k) # Digit(b, k) THEN Digit(a, k) < Digit(b, k)
  ELSE WLeqFrom(a, b, k - 1)

\* a <= b.
WLeq(a, b) ==
  WLeqFrom(a, b, IF Len(a) > Len(b) THEN Len(a) ELSE Len(b))

WIsZero(a) == \A k \in 1 .. Len(a) : a[k] = 0

RECURSIVE QuotDigit(_, _, _, _)
\* The largest q of lo .. hi with q * d <= r (lo * d <= r).
QuotDigit(lo, hi, d, r) ==
  IF lo = hi THEN lo
  ELSE LET mid == (lo + hi + 1) \div 2
       IN  IF WLeq(WMul(<<mid>>, d, Len(d) + 1), r)
             THEN QuotDigit(mid, hi, d, r)
             ELSE QuotDigit(lo, mid - 1, d, r)

RECURSIVE WDivFrom(_, _, _, _)
\* Long division of digits k .. 1 of a by d # 0, r the remainder so far.
WDivFrom(a, d, k, r) ==
  IF k = 0 THEN <<>>
  ELSE LET r1 == <<a[k]>> \o SubSeq(r, 1, Len(d))
           q == QuotDigit(0, 255, d, r1)
           r2 == WSub(r1, WMul(<<q>>, d, Len(d) + 1), Len(d) + 1)
       IN  WDivFrom(a, d, k - 1, r2) \o <<q>>

\* a / d (d # 0), as many digits as a has.
WDiv(a, d) == WDivFrom(a, d, Len(a), Digits(0, Len(d) + 1))

\* ext4_balloc_get_block_of_bgid in the widths of lines 70-79: baddr is
\* uint64_t; bgid and ext4_get32(s, blocks_per_group) are uint32_t, so
\* their product is formed in 32 bits and then added to baddr.
BlockOfBgid(first_data_block, blocks_per_group, bgid) ==
  WAdd(IF ~WIsZero(first_data_block) THEN U64(1) ELSE U64(0),
       WMul(bgid, blocks_per_group, 4), 8)

\* ext4_balloc_get_bgid_of_block in the widths of lines 55-63: baddr is
\* uint64_t, the quotient is returned as uint32_t.
BgidOfBlock(first_data_block, blocks_per_group, baddr) ==
  LET b == IF ~WIsZero(first_data_block) /\ ~WIsZero(baddr)
             THEN WSub(baddr, U64(1), 8) ELSE baddr
  IN  SubSeq(WDiv(b, blocks_per_group), 1, 4)

\* Group numbers and group sizes (uint32_t): small ones, and ones whose
\* product has more than 32 bits (2^17 groups of 2^15 blocks is a 16 TiB
\* filesystem of 4 KiB blocks).
GeomBgids ==
  { U32(0), U32(1), U32(3), U32(65535), U32(65536), U32(131072),
    U32(131075), <<255, 255, 255, 255>> }

GeomBlocksPerGroup ==
  { U32(8192), U32(16000), U32(32768), U32(65528), U32(524288) }

\* The state of the geometry specification: the inputs in sb and last,
\* the results in last.
InitGeom ==
  /\ \E fdb \in {U32(0), U32(1)} : \E bpg \in GeomBlocksPerGroup :
       sb = [first_data_block |-> fdb, blocks_per_group |-> bpg]
  /\ \E bgid \in GeomBgids :
       last = [op |-> "none", bgid |-> bgid, baddr |-> U64(0),
               back |-> U32(0)]
  /\ bg = <<>>
  /\ bitmap = <<>>
  /\ inode = [blocks_count |-> 0]
  /\ hist = Hist(0, {}, {}, 0, TRUE, 0)

\* first_block_of(bgid).
GeomBlockOfBgid ==
  /\ last.op = "none"
  /\ last' = [last EXCEPT
               !.op = "first_block_of",
               !.baddr = BlockOfBgid(sb.first_data_block,
                                     sb.blocks_per_group, last.bgid)]
  /\ UNCHANGED <<sb, bg, bitmap, inode, hist>>

\* bgid_of(baddr) of the address first_block_of returned.
GeomBgidOfBlock ==
  /\ last.op = "first_block_of"
  /\ last' = [last EXCEPT
               !.op = "bgid_of",
               !.back = BgidOfBlock(sb.first_data_block,
                                    sb.blocks_per_group, last.baddr)]
  /\ UNCHANGED <<sb, bg, bitmap, inode, hist>>

NextGeom == GeomBlockOfBgid \/ GeomBgidOfBlock

SpecGeom == InitGeom /\ [][NextGeom]_vars

\* ------------------------------------------------------- claim vocabulary

IsGet(e) == e.e = "get"

\* The groups whose handles a call acquired, in order.
GroupsVisited(ev) ==
  LET gets == SelectSeq(ev, IsGet)
  IN  [k \in 1 .. Len(gets) |-> gets[k].g]

\* Clear bits of the valid prefix of group g at or after index i.
ClrFrom(s, bm, g, i) == ClrIn(bm[g], i, ext4_blocks_in_group_cnt(s, g))

\* Clear bits among the first blocks_in_group_cnt(g) bits of a bitmap.
ClearCount(s, bm, g) ==
  Cardinality(ClrIn(bm[g], 0, ext4_blocks_in_group_cnt(s, g)))

\* Every group's free count is the number of clear bits of its valid prefix.
Agree(s, d, bm) ==
  \A g \in Groups(s) : d[g].free_blocks_count = ClearCount(s, bm, g)

\* K = B/512: sectors per block.
SectorsPerBlock(s) == ext4_sb_get_block_size(s) \div EXT4_INODE_BLOCK_SIZE

\* Events acq that returned EOK minus events rel among the first k events.
Held(ev, acq, rel, k) ==
  Cardinality({j \in 1 .. k : ev[j].e = acq /\ ev[j].ok})
    - Cardinality({j \in 1 .. k : ev[j].e = rel})

\* Every resource acquired by acq is released by rel exactly once, before
\* the call returns, and nothing is released that is not held.
Balanced(ev, acq, rel) ==
  /\ \A k \in 0 .. Len(ev) : Held(ev, acq, rel, k) \in {0, 1}
  /\ Held(ev, acq, rel, Len(ev)) = 0
  /\ \A k \in 1 .. Len(ev) :
       ev[k].e = rel =>
         \E j \in 1 .. k - 1 :
           /\ ev[j].e = acq /\ ev[j].ok /\ ev[j].g = ev[k].g
           /\ \A i \in j + 1 .. k - 1 : ev[i].e \notin {acq, rel}

\* A bitmap block_get or block_set of the call returned an error.
BitmapIoFailed(ev) ==
  \E k \in 1 .. Len(ev) : ev[k].e \in {"bget", "bset"} /\ ~ev[k].ok

\* The free-block counters and inode.blocks_count are as before the step.
CountersUnchanged ==
  /\ sb'.free_blocks_count = sb.free_blocks_count
  /\ \A g \in Groups(sb) : bg'[g].free_blocks_count = bg[g].free_blocks_count
  /\ inode'.blocks_count = inode.blocks_count

\* ------------------------------------------------------------------ claims

\* C1: at every call boundary, after any sequence of alloc, free_one,
\* free_range and try_one calls (those that return an error included), the
\* superblock free count equals the sum of the group free counts, and no
\* counter has wrapped below zero.
C1_CounterCoherence ==
  /\ sb.free_blocks_count = SumFree(bg, LastGroup(sb))
  /\ sb.free_blocks_count >= 0
  /\ \A g \in Groups(sb) : bg[g].free_blocks_count >= 0

\* C1 witness: a call returned an I/O error after it had written the
\* counters (the release of the group handle failed).
C1_Witness ==
  /\ last.rc = EIO
  /\ \E k \in 1 .. Len(last.ev) : last.ev[k].e = "count"
  /\ hist.calls >= 2

\* C2, as claimed: while every call has succeeded and every free has
\* targeted only in-range blocks whose bits were set, every group's free
\* count equals the number of clear bits in its valid prefix.
C2_GroupCountsMatchBitmap == hist.clean => Agree(sb, bg, bitmap)

\* C3: while no call has returned an I/O error, inode.blocks_count is
\* (B/512) * (blocks handed out by alloc and try_one - blocks released);
\* a try_one that reports was_free = false and an alloc that returns
\* no_space leave inode.blocks_count unchanged.
C3_InodeBlocks ==
  [][ /\ hist'.errs = 0 =>
           inode'.blocks_count = SectorsPerBlock(sb') * hist'.net
      /\ (last'.op = "try_one" /\ last'.rc = EOK /\ ~last'.free) =>
           inode'.blocks_count = inode.blocks_count
      /\ (last'.op = "alloc" /\ last'.rc = ENOSPC) =>
           inode'.blocks_count = inode.blocks_count ]_vars

\* C3 witness: after hand-outs and a successful free the inode still holds
\* a block.
C3_Witness ==
  /\ hist.errs = 0
  /\ last.op = "free_one" /\ last.rc = EOK
  /\ hist.net = 1
  /\ inode.blocks_count = SectorsPerBlock(sb)

\* C4: a successful alloc returns a block of first_data_block ..
\* blocks_count-1 whose bitmap bit was clear before the call and is set
\* after it, and changes no other bitmap bit.
C4_AllocWithinBounds ==
  [][ (last'.op = "alloc" /\ last'.rc = EOK) =>
        LET b == last'.fblock
            g == ext4_balloc_get_bgid_of_block(sb, b)
            i == ext4_fs_baddr2_index_in_group(sb, b)
        IN  /\ InRange(sb, b)
            /\ g \in Groups(sb)
            /\ i \in bitmap[g]
            /\ i \notin bitmap'[g]
            /\ bitmap' = [bitmap EXCEPT ![g] = @ \ {i}] ]_vars

\* C4 witness: a successful alloc that took a block of another group than
\* the goal's.
C4_Witness ==
  /\ last.op = "alloc" /\ last.rc = EOK
  /\ ext4_balloc_get_bgid_of_block(sb, last.fblock)
       # ext4_balloc_get_bgid_of_block(sb, last.a)
  /\ BitSet(FsState, last.fblock)

\* C5: an address handed out by this call (alloc returned it with EOK, or
\* try_one reported was_free = true with EOK) was not handed out before
\* without a free_one or free_range call covering it since.
C5_NoDoubleAllocation ==
  [][ /\ (last'.op = "alloc" /\ last'.rc = EOK) =>
           last'.fblock \notin hist.handed
      /\ (last'.op = "try_one" /\ last'.rc = EOK /\ last'.free) =>
           last'.a \notin hist.handed ]_vars

\* C5 witness: an address is handed out again after a free covered it.
C5_Witness ==
  /\ last.op \in {"alloc", "try_one"} /\ last.rc = EOK
  /\ \E b \in hist.freed \cap hist.handed :
       b = IF last.op = "alloc" THEN last.fblock ELSE last.a
  /\ last.op = "try_one" => last.free

\* C6, as claimed: after a successful free_range(first, n) of in-range
\* blocks the bitmap bit of every block first .. first+n-1 is clear.
C6_RangeFreeClosure ==
  (/\ last.op = "free_range" /\ last.rc = EOK
   /\ \A b \in last.a .. last.a + last.n - 1 : InRange(sb, b))
    => \A b \in last.a .. last.a + last.n - 1 : ~BitSet(FsState, b)

\* C7, as claimed: when alloc returns, every group handle it acquired has
\* been released.
C7_AllocReleasesHandles ==
  last.op = "alloc" => Balanced(last.ev, "get", "put")

\* C8: when free_one, free_range or try_one returns, every group handle it
\* acquired has been released exactly once and every bitmap buffer it got
\* has been passed to block_set exactly once.
C8_HandlesBalanced ==
  last.op \in {"free_one", "free_range", "try_one"} =>
    /\ Balanced(last.ev, "get", "put")
    /\ Balanced(last.ev, "bget", "bset")

\* C8 witness: a free_range that failed in the second group of its range.
C8_Witness ==
  /\ last.op = "free_range" /\ last.rc = EIO
  /\ Len(last.ev) > 5

\* C9: from a state where counters and bitmaps agree, an alloc none of
\* whose I/O calls fails returns no_space exactly when no group has a clear
\* bit in its valid prefix, and then changes no counter and no bitmap bit
\* and marks no buffer or handle dirty.
C9_NoSpaceIffFull ==
  [][ (last'.op = "alloc" /\ last'.f = 0 /\ Agree(sb, bg, bitmap)) =>
        /\ last'.rc = ENOSPC <=>
             \A g \in Groups(sb) : ClearCount(sb, bitmap, g) = 0
        /\ last'.rc = ENOSPC =>
             /\ UNCHANGED <<sb, bg, bitmap, inode>>
             /\ \A k \in 1 .. Len(last'.ev) : ~last'.ev[k].dirty ]_vars

\* C9 witness: alloc returned no_space.
C9_Witness ==
  /\ last.op = "alloc" /\ last.f = 0 /\ last.rc = ENOSPC
  /\ Agree(sb, bg, bitmap)

\* C10: in free_one, alloc and try_one, a failed bitmap block_get or
\* block_set makes the call return the error with the three counters as
\* before the call, and the counters are written only after the bitmap
\* block_set of the same group has returned success.
C10_CountersAfterStore ==
  [][ last'.op \in {"free_one", "alloc", "try_one"} =>
        /\ BitmapIoFailed(last'.ev) => (last'.rc = EIO /\ CountersUnchanged)
        /\ \A k \in 1 .. Len(last'.ev) :
             last'.ev[k].e = "count" =>
               /\ k > 1
               /\ last'.ev[k - 1] = EvBset(last'.ev[k].g, TRUE, TRUE)
        /\ ~CountersUnchanged =>
             \E k \in 1 .. Len(last'.ev) : last'.ev[k].e = "count" ]_vars

\* C10 witness: try_one found the bit clear and the bitmap store failed.
C10_Witness ==
  /\ last.op = "try_one" /\ last.rc = EIO /\ last.free
  /\ BitmapIoFailed(last.ev)

\* C11: a try_one none of whose I/O calls fails: when the bit of baddr is
\* clear it reports was_free = true, sets exactly that bit, takes 1 from the
\* superblock and the group free counts and adds B/512 to
\* inode.blocks_count; when the bit is set it reports was_free = false,
\* changes no bitmap bit and no counter and marks neither the bitmap buffer
\* nor the group handle dirty.  A try_one that repeats the one just before
\* it reports was_free = false and changes nothing.
C11_TryOne ==
  [][ (last'.op = "try_one" /\ last'.f = 0) =>
        LET g == ext4_balloc_get_bgid_of_block(sb, last'.a)
            i == ext4_fs_baddr2_index_in_group(sb, last'.a)
        IN  /\ last'.rc = EOK
            /\ i \in bitmap[g] =>
                 /\ last'.free
                 /\ bitmap' = [bitmap EXCEPT ![g] = @ \ {i}]
                 /\ sb'.free_blocks_count = sb.free_blocks_count - 1
                 /\ \A h \in Groups(sb) :
                      bg'[h].free_blocks_count =
                        bg[h].free_blocks_count - (IF h = g THEN 1 ELSE 0)
                 /\ inode'.blocks_count
                      = inode.blocks_count + SectorsPerBlock(sb)
            /\ i \notin bitmap[g] =>
                 /\ ~last'.free
                 /\ UNCHANGED <<sb, bg, bitmap, inode>>
                 /\ \A k \in 1 .. Len(last'.ev) : ~last'.ev[k].dirty
            /\ last'.follows = "try_one" =>
                 /\ ~last'.free
                 /\ UNCHANGED <<sb, bg, bitmap, inode>> ]_vars

\* C11 witness: try_one found the bit clear and claimed it, and the same
\* call made again reported was_free = false.
C11_Witness ==
  /\ last.op = "try_one" /\ last.f = 0 /\ last.follows = "try_one"
  /\ ~last.free
  /\ last.a \in hist.handed
  /\ inode.blocks_count = SectorsPerBlock(sb)

\* C12: a successful free_one of the block that the successful alloc just
\* before it returned restores every bitmap bit, the superblock free count,
\* every group free count and inode.blocks_count to their values before
\* the alloc.
C12_AllocFreeRoundTrip ==
  [][ (last'.op = "free_one" /\ last'.follows = "alloc" /\ last'.rc = EOK) =>
        /\ last.op = "alloc" /\ last.rc = EOK /\ last.fblock = last'.a
        /\ Counted([sb |-> sb', bg |-> bg', bitmap |-> bitmap',
                    inode |-> inode']) = last.pre ]_vars

\* C12 witness: free_one gave back the block the alloc just before it had
\* returned.
C12_Witness ==
  /\ last.op = "free_one" /\ last.follows = "alloc" /\ last.rc = EOK
  /\ ~BitSet(FsState, last.a)
  /\ hist.calls >= 2

\* C13, as claimed: with first_data_block = 1 no call reports block 0 as
\* allocated, and a try_one, free_one or free_range call that names
\* address 0 changes no bitmap bit (so not the bit of block 1) and no
\* counter.
C13_NothingBelowFirstDataBlock ==
  [][ sb.first_data_block = 1 =>
        /\ (last'.op = "alloc" /\ last'.rc = EOK) => last'.fblock # 0
        /\ (last'.op = "try_one" /\ last'.a = 0) => ~last'.free
        /\ (last'.op \in {"try_one", "free_one", "free_range"}
               /\ last'.a = 0) =>
             /\ bitmap' = bitmap
             /\ CountersUnchanged ]_vars

\* C14: an alloc none of whose I/O calls fails, with goal index i in a goal
\* group g whose free count is > 0: when bit i is clear the goal block is
\* returned, whatever lower bits of g are clear; otherwise, when a bit of
\* i+1 .. blocks_in_group_cnt(g)-1 is clear, the block at the lowest such
\* index is returned; and a block alloc returns without leaving the goal
\* group (one group handle acquired) is never at an index below i.
C14_Phase1Order ==
  [][ (last'.op = "alloc" /\ last'.f = 0) =>
        LET g == ext4_balloc_get_bgid_of_block(sb, last'.a)
            i == ext4_fs_baddr2_index_in_group(sb, last'.a)
            clr == ClrFrom(sb, bitmap, g, i)
        IN  /\ (bg[g].free_blocks_count > 0 /\ i \in bitmap[g]) =>
                 (last'.rc = EOK /\ last'.fblock = last'.a)
            /\ (bg[g].free_blocks_count > 0 /\ i \notin bitmap[g]
                   /\ clr # {}) =>
                 /\ last'.rc = EOK
                 /\ last'.fblock = Blk(sb, g, Lowest(clr))
                 /\ Lowest(clr) > i
            /\ (last'.rc = EOK /\ Len(GroupsVisited(last'.ev)) = 1) =>
                 /\ bg[g].free_blocks_count > 0
                 /\ clr # {}
                 /\ last'.fblock = Blk(sb, g, Lowest(clr)) ]_vars

\* C14 witness: alloc returned its goal block although a lower block of
\* the goal group is free.
C14_Witness ==
  /\ last.op = "alloc" /\ last.f = 0 /\ last.rc = EOK
  /\ last.fblock = last.a
  /\ Len(GroupsVisited(last.ev)) = 1
  /\ \E j \in bitmap[ext4_balloc_get_bgid_of_block(sb, last.a)] :
       j < ext4_fs_baddr2_index_in_group(sb, last.a)

\* C15: an alloc none of whose I/O calls fails and whose goal group g has
\* free count 0 or no clear bit from the goal index on: after g it acquires
\* the groups (g+1) mod G, (g+2) mod G, ... in that order, at most G of
\* them, the last being g; it returns the block at the lowest clear index
\* of the first of them that has a free count > 0 and a clear bit and
\* stops there; when there is none it has visited each of the G groups
\* once and returns no_space.
C15_Phase2Order ==
  [][ (/\ last'.op = "alloc" /\ last'.f = 0
       /\ LET g == ext4_balloc_get_bgid_of_block(sb, last'.a)
          IN  \/ bg[g].free_blocks_count = 0
              \/ ClrFrom(sb, bitmap, g,
                         ext4_fs_baddr2_index_in_group(sb, last'.a)) = {}) =>
        LET g == ext4_balloc_get_bgid_of_block(sb, last'.a)
            G == ext4_block_group_cnt(sb)
            seen == GroupsVisited(last'.ev)
            Nth(k) == (g + k) % G
            cand == {k \in 1 .. G : /\ bg[Nth(k)].free_blocks_count > 0
                                    /\ ClrFrom(sb, bitmap, Nth(k), 0) # {}}
        IN  /\ seen[1] = g
            /\ Len(seen) <= G + 1
            /\ \A k \in 1 .. Len(seen) - 1 : seen[k + 1] = Nth(k)
            /\ cand = {} => (last'.rc = ENOSPC /\ Len(seen) = G + 1)
            /\ cand # {} =>
                 /\ last'.rc = EOK
                 /\ Len(seen) = Lowest(cand) + 1
                 /\ last'.fblock =
                      Blk(sb, Nth(Lowest(cand)),
                          Lowest(ClrFrom(sb, bitmap, Nth(Lowest(cand)), 0)))
      ]_vars

\* C15 witness: the goal was in the last of three groups, which was full,
\* and alloc wrapped to group 0 and returned its lowest free block.
C15_Witness ==
  /\ last.op = "alloc" /\ last.f = 0 /\ last.rc = EOK
  /\ ext4_block_group_cnt(sb) = 3
  /\ GroupsVisited(last.ev) = <<2, 0>>
  /\ ext4_balloc_get_bgid_of_block(sb, last.fblock) = 0

\* C16, as claimed: whenever free_range reaches its final assertion, after
\* the loop ran through the last group or after it was left because the
\* release of a group handle failed, the remaining count is 0.
C16_RangeCountZero ==
  (last.op = "free_range" /\ last.left # -1) => last.left = 0

\* C17, as claimed: while every call has succeeded and every free has
\* targeted only in-range blocks whose bits were set, no bitmap bit at an
\* index >= blocks_in_group_cnt(g) is clear: the padding beyond the valid
\* prefix of a group stays set.
C17_PaddingStaysSet ==
  hist.clean =>
    \A g \in Groups(sb) :
      bitmap[g] \subseteq 0 .. ext4_blocks_in_group_cnt(sb, g) - 1

\* C18, as claimed: a free_range that returns an error because a group
\* handle acquire, a bitmap block_get or a bitmap block_set failed leaves
\* the superblock free count, every group free count and
\* inode.blocks_count as before the call.
C18_RangeErrorLeavesCounters ==
  [][ (/\ last'.op = "free_range" /\ last'.rc = EIO
       /\ \E k \in 1 .. Len(last'.ev) :
            last'.ev[k].e \in {"get", "bget", "bset"} /\ ~last'.ev[k].ok) =>
        CountersUnchanged ]_vars

\* C19, as claimed: first_block_of(bgid) is the 64-bit value
\* (first_data_block != 0 ? 1 : 0) + bgid * blocks_per_group, the product
\* not truncated to 32 bits, and bgid_of(first_block_of(bgid)) = bgid.
C19_FirstBlockOf64 ==
  /\ last.op \in {"first_block_of", "bgid_of"} =>
       last.baddr =
         WAdd(IF WIsZero(sb.first_data_block) THEN U64(0) ELSE U64(1),
              WMul(last.bgid, sb.blocks_per_group, 8), 8)
  /\ last.op = "bgid_of" => last.back = last.bgid

\* C20: with the metadata-checksum feature and 64-byte descriptors, at
\* every call boundary the descriptor of every group (the groups whose
\* bitmaps the allocator changed, and those it left as mounted) stores the
\* low and the high 16 bits of the checksum of the group's current bitmap.
C20_ChecksumStamped ==
  (sb.metadata_csum /\ sb.desc_size = EXT4_MAX_BLOCK_GROUP_DESCRIPTOR_SIZE) =>
    \A g \in Groups(sb) :
      /\ bg[g].block_bitmap_csum_lo
           = Lo16(ext4_balloc_bitmap_csum(sb, bitmap[g]))
      /\ bg[g].block_bitmap_csum_hi
           = Hi16(ext4_balloc_bitmap_csum(sb, bitmap[g]))

\* C20 witness: with checksums and 64-byte descriptors, a free_range
\* cleared bits of group 0 after earlier calls had set bits, and stored
\* the bitmap.
C20_Witness ==
  /\ sb.metadata_csum /\ sb.desc_size = EXT4_MAX_BLOCK_GROUP_DESCRIPTOR_SIZE
  /\ last.op = "free_range" /\ last.rc = EOK
  /\ hist.calls >= 3
  /\ \E k \in 1 .. Len(last.ev) : last.ev[k] = EvBset(0, TRUE, TRUE)
  /\ bitmap[0] # {}

====
